---- MODULE Spec2Model ----
(***************************************************************************)
(* Model of the crfsuite-rs Tagger (src/src/lib.rs): a safe wrapper around *)
(* the native CRFsuite model, tagger and dictionary handles.               *)
(*                                                                         *)
(* Names (attribute names, label names) are byte strings, modelled as      *)
(* sequences of byte values.  Scores are natural numbers; the              *)
(* exponential of a score s is modelled in base 2 (Pot(s) = 2^s), so a     *)
(* probability exp(score - log Z) is the exact fraction <<Pot(score), Z>>. *)
(***************************************************************************)
EXTENDS Integers, Sequences, FiniteSets, TLC

(***************************************************************************)
(* Bounds                                                                  *)
(***************************************************************************)
\* longest input sequence (number of items) handed to set / tag
MaxT == 2
\* longest candidate label list handed to probability
MaxTags == 2

(***************************************************************************)
(* Byte strings                                                            *)
(***************************************************************************)
NameA    == <<97, 58, 49>>    \* "a:1"
NameB    == <<98, 58, 50>>    \* "b:2"
NameZ    == <<122>>           \* "z", in no dictionary
NameNul  == <<97, 0>>         \* "a\0": a Rust string with an interior NUL
NameEAcc == <<195, 169>>      \* "e" with acute accent, a two-byte UTF-8 character
LabO     == <<79>>            \* "O"
LabB     == <<66>>            \* "B"
LabI     == <<73>>            \* "I"
LabBad   == <<255>>           \* a byte string that is not valid UTF-8

\* CString::new: fails when the bytes contain a NUL, otherwise the same bytes
CString_new(bytes) ==
    IF \E i \in 1..Len(bytes) : bytes[i] = 0
    THEN [ok |-> FALSE, cstr |-> <<>>]
    ELSE [ok |-> TRUE, cstr |-> bytes]

IsCont(b) == b >= 128 /\ b <= 191

\* CStr::to_str succeeds exactly on well-formed UTF-8
RECURSIVE Utf8From(_, _)
Utf8From(bytes, i) ==
    IF i > Len(bytes) THEN TRUE
    ELSE LET b == bytes[i] IN
         IF b < 128 THEN Utf8From(bytes, i + 1)
         ELSE IF b >= 194 /\ b <= 223
              THEN /\ i + 1 <= Len(bytes)
                   /\ IsCont(bytes[i + 1])
                   /\ Utf8From(bytes, i + 2)
         ELSE IF b >= 224 /\ b <= 239
              THEN /\ i + 2 <= Len(bytes)
                   /\ IsCont(bytes[i + 1])
                   /\ IsCont(bytes[i + 2])
                   /\ (b = 224 => bytes[i + 1] >= 160)
                   /\ (b = 237 => bytes[i + 1] <= 159)
                   /\ Utf8From(bytes, i + 3)
         ELSE IF b >= 240 /\ b <= 244
              THEN /\ i + 3 <= Len(bytes)
                   /\ IsCont(bytes[i + 1])
                   /\ IsCont(bytes[i + 2])
                   /\ IsCont(bytes[i + 3])
                   /\ (b = 240 => bytes[i + 1] >= 144)
                   /\ (b = 244 => bytes[i + 1] <= 143)
                   /\ Utf8From(bytes, i + 4)
         ELSE FALSE

CStr_to_str(bytes) == Utf8From(bytes, 1)

(***************************************************************************)
(* Attributes handed to set / tag                                          *)
(***************************************************************************)
\* SimpleAttribute { attr, value }
SimpleAttribute(name, v) == [kind |-> "simple", attr |-> name, value |-> v]

\* a (String, String) pair: key and value
Pair(key, value) == [kind |-> "pair", key |-> key, val |-> value]

\* format!("{}:{}", key, value)
format_key_value(key, value) == key \o <<58>> \o value


\* a pair formatted without the colon
get_attr_no_colon(a) ==
    IF a.kind = "pair"
    THEN CString_new(a.key \o a.val)
    ELSE CString_new(a.attr)

get_attr(a) ==
    IF a.kind = "pair"
    THEN CString_new(format_key_value(a.key, a.val))
    ELSE CString_new(a.attr)

get_value(a) == IF a.kind = "pair" THEN 1 ELSE a.value

(***************************************************************************)
(* Native dictionary: names interned to dense ids 0..num-1                 *)
(***************************************************************************)
\* number of entries
Dict_num(dict) == Len(dict)

\* id of a name, a negative number when the name is not in the dictionary
Dict_to_id(dict, name) ==
    IF \E i \in 1..Len(dict) : dict[i] = name
    THEN (CHOOSE i \in 1..Len(dict) : dict[i] = name) - 1
    ELSE -1

\* intern: the dictionary after a name was inserted if absent
Dict_after_intern(dict, name) ==
    IF \E i \in 1..Len(dict) : dict[i] = name THEN dict ELSE Append(dict, name)

\* the dictionary after a lookup by name: a lookup inserts nothing
Dict_after_to_id(dict, name) == dict

\* name of an id: return code and name
Dict_to_string(dict, id) ==
    IF id >= 0 /\ id < Len(dict)
    THEN [r |-> 0, str |-> dict[id + 1]]
    ELSE [r |-> 1, str |-> <<>>]

\* DictionaryWrapper
str_to_id(dict, cstr) == Dict_to_id(dict, cstr)

id_to_string(dict, id) == Dict_to_string(dict, id)

num(dict) == Dict_num(dict)

(***************************************************************************)
(* Model files.  A model owns the label dictionary, the attribute          *)
(* dictionary, the state-feature weights sw[attribute id + 1][label id + 1]*)
(* and the transition weights tw[from label id + 1][to label id + 1].      *)
(***************************************************************************)
Blob(c, ls, as, s, t) ==
    [corrupt |-> c, labels |-> ls, attrs |-> as, sw |-> s, tw |-> t]

\* two labels, "a:1" votes for O and "b:2" for B, transitions prefer to stay
ModelOB ==
    Blob(FALSE, <<LabO, LabB>>, <<NameA, NameB>>,
         <<<<1, 0>>, <<0, 1>>>>,
         <<<<1, 0>>, <<0, 1>>>>)

\* the second label is not valid UTF-8 and "b:2" votes for it
ModelBadLabel ==
    Blob(FALSE, <<LabO, LabBad>>, <<NameA, NameB>>,
         <<<<2, 0>>, <<0, 2>>>>,
         <<<<0, 0>>, <<0, 0>>>>)

\* three labels, every weight equal: every path has the same score
ModelTies ==
    Blob(FALSE, <<LabB, LabO, LabI>>, <<NameB, NameA>>,
         <<<<1, 1, 1>>, <<1, 1, 1>>>>,
         <<<<0, 0, 0>>, <<0, 0, 0>>, <<0, 0, 0>>>>)

\* three labels, transitions forbid nothing but reward O -> I and I -> B
ModelChain ==
    Blob(FALSE, <<LabO, NameEAcc, LabI>>, <<NameA, NameB>>,
         <<<<1, 0, 0>>, <<0, 0, 1>>>>,
         <<<<0, 0, 2>>, <<1, 0, 0>>, <<0, 3, 0>>>>)

\* bytes the native loader rejects
ModelCorrupt ==
    Blob(TRUE, <<>>, <<>>, <<>>, <<>>)

Blobs == {ModelOB, ModelBadLabel, ModelTies, ModelChain, ModelCorrupt}

\* the model files explored when native calls may fail
FaultBlobs == {ModelOB, ModelCorrupt}

\* crfsuite_create_instance_from_memory: return code
crfsuite_create_instance_from_memory(data) == IF data.corrupt THEN 1 ELSE 0

(***************************************************************************)
(* Native instance: a sequence of items, each a sequence of                *)
(* (attribute id, value) pairs.                                            *)
(***************************************************************************)
\* crfsuite_attribute_set
crfsuite_attribute_set(aid, value) == [aid |-> aid, value |-> value]

\* crfsuite_item_append_attribute
crfsuite_item_append_attribute(item, cont) == Append(item, cont)

(***************************************************************************)
(* Native tagger: the scoring lattice of the instance that was set         *)
(***************************************************************************)
NumLabels(m) == Len(m.labels)

LabelIds(m) == 1..NumLabels(m)

\* score(t, y): sum over the item's attributes of weight * value
RECURSIVE StateScoreFrom(_, _, _, _)
StateScoreFrom(m, item, y, k) ==
    IF k > Len(item) THEN 0
    ELSE m.sw[item[k].aid + 1][y] * item[k].value
         + StateScoreFrom(m, item, y, k + 1)

StateScore(m, item, y) == StateScoreFrom(m, item, y, 1)

TransScore(m, y1, y2) == m.tw[y1][y2]

\* score of a label path (label ids + 1) over an instance
RECURSIVE PathScoreFrom(_, _, _, _)
PathScoreFrom(m, inst, path, t) ==
    IF t > Len(inst) THEN 0
    ELSE StateScore(m, inst[t], path[t])
         + (IF t > 1 THEN TransScore(m, path[t - 1], path[t]) ELSE 0)
         + PathScoreFrom(m, inst, path, t + 1)

PathScore(m, inst, path) == PathScoreFrom(m, inst, path, 1)

\* the largest value of a row
MaxOver(row) ==
    CHOOSE v \in {row[y] : y \in 1..Len(row)} :
        \A y \in 1..Len(row) : row[y] <= v

\* last-encountered maximum: the highest index attaining the maximum
ArgMaxLast(row) ==
    CHOOSE y \in 1..Len(row) :
        /\ \A z \in 1..Len(row) : row[z] <= row[y]
        /\ \A z \in 1..Len(row) : z > y => row[z] < row[y]

\* first-encountered maximum: the lowest index attaining the maximum
ArgMaxFirst(row) ==
    CHOOSE y \in 1..Len(row) :
        /\ \A z \in 1..Len(row) : row[z] <= row[y]
        /\ \A z \in 1..Len(row) : z < y => row[z] < row[y]

\* delta(t - 1, y1) + score(y1, y) for the predecessors y1, y1 + 1, ...
RECURSIVE ViaRow(_, _, _, _)
ViaRow(m, prev, y, y1) ==
    IF y1 > NumLabels(m) THEN <<>>
    ELSE <<prev[y1] + TransScore(m, y1, y)>> \o ViaRow(m, prev, y, y1 + 1)

\* delta(1, .): the state scores of the first item, for the labels y, y + 1, ...
RECURSIVE DeltaFirst(_, _, _)
DeltaFirst(m, item, y) ==
    IF y > NumLabels(m) THEN <<>>
    ELSE <<StateScore(m, item, y)>> \o DeltaFirst(m, item, y + 1)

\* delta(t, .) from delta(t - 1, .), for the labels y, y + 1, ...
RECURSIVE DeltaStep(_, _, _, _)
DeltaStep(m, item, prev, y) ==
    IF y > NumLabels(m) THEN <<>>
    ELSE <<StateScore(m, item, y) + MaxOver(ViaRow(m, prev, y, 1))>>
         \o DeltaStep(m, item, prev, y + 1)

\* delta(t, .): best score of a path ending at position t in each label
RECURSIVE DeltaRow(_, _, _)
DeltaRow(m, inst, t) ==
    IF t = 1
    THEN DeltaFirst(m, inst[1], 1)
    ELSE DeltaStep(m, inst[t], DeltaRow(m, inst, t - 1), 1)

\* backpointer: the predecessor chosen for label y at position t > 1
BackPointer(m, inst, t, y) ==
    ArgMaxFirst(ViaRow(m, DeltaRow(m, inst, t - 1), y, 1))

\* backtracking from position t in label y down to position 1
RECURSIVE BackTrack(_, _, _, _)
BackTrack(m, inst, t, y) ==
    IF t = 1 THEN <<y>>
    ELSE Append(BackTrack(m, inst, t - 1, BackPointer(m, inst, t, y)), y)

\* tagger viterbi: the best path as label ids, and its score
Native_viterbi(m, inst) ==
    LET T    == Len(inst)
        last == DeltaRow(m, inst, T)
        yT   == ArgMaxFirst(last)
        p    == BackTrack(m, inst, T, yT)
    IN  [path |-> [t \in 1..T |-> p[t] - 1], score |-> last[yT]]

\* tagger score: the score of a given path of label ids
Native_score(m, inst, path) ==
    PathScore(m, inst, [t \in 1..Len(path) |-> path[t] + 1])

\* exp of a score, in base 2
RECURSIVE Pot(_)
Pot(s) == IF s = 0 THEN 1 ELSE 2 * Pot(s - 1)

RECURSIVE SumOver(_, _, _)
SumOver(row, y, n) == IF y > n THEN 0 ELSE row[y] + SumOver(row, y + 1, n)

\* alpha(t - 1, y1) * exp(score(y1, y)) summed over the predecessors y1, y1 + 1, ...
RECURSIVE ViaSum(_, _, _, _)
ViaSum(m, prev, y, y1) ==
    IF y1 > NumLabels(m) THEN 0
    ELSE prev[y1] * Pot(TransScore(m, y1, y)) + ViaSum(m, prev, y, y1 + 1)

\* alpha(1, .), for the labels y, y + 1, ...
RECURSIVE AlphaFirst(_, _, _)
AlphaFirst(m, item, y) ==
    IF y > NumLabels(m) THEN <<>>
    ELSE <<Pot(StateScore(m, item, y))>> \o AlphaFirst(m, item, y + 1)

\* alpha(t, .) from alpha(t - 1, .), for the labels y, y + 1, ...
RECURSIVE AlphaStep(_, _, _, _)
AlphaStep(m, item, prev, y) ==
    IF y > NumLabels(m) THEN <<>>
    ELSE <<Pot(StateScore(m, item, y)) * ViaSum(m, prev, y, 1)>>
         \o AlphaStep(m, item, prev, y + 1)

\* alpha(t, .): total potential of the paths ending at position t in each label
RECURSIVE AlphaRow(_, _, _)
AlphaRow(m, inst, t) ==
    IF t = 1
    THEN AlphaFirst(m, inst[1], 1)
    ELSE AlphaStep(m, inst[t], AlphaRow(m, inst, t - 1), 1)

\* tagger lognorm: the partition value Z (its logarithm is what the code holds)
Native_lognorm(m, inst) ==
    SumOver(AlphaRow(m, inst, Len(inst)), 1, NumLabels(m))

\* tagger length
Native_length(inst) == Len(inst)

\* the sequence held by a tagger whose viterbi, score or lognorm call used it up
Native_after_query_consumed(inst) == <<>>

\* the sequence held by the tagger after a viterbi, score or lognorm call:
\* inference only reads it
Native_after_query(inst) == inst

(***************************************************************************)
(* Results of the Tagger methods: Result<(), _>, Result<Vec<String>, _>    *)
(* and Result<f64, _> in one record.  p is the returned number as a        *)
(* fraction <<numerator, denominator>>.                                    *)
(***************************************************************************)
Ok_unit == [ok |-> TRUE, kind |-> "unit", err |-> "", labels |-> <<>>, p |-> <<0, 1>>]

Ok_labels(ls) == [ok |-> TRUE, kind |-> "labels", err |-> "", labels |-> ls, p |-> <<0, 1>>]

Ok_f64(n, d) == [ok |-> TRUE, kind |-> "f64", err |-> "", labels |-> <<>>, p |-> <<n, d>>]

Err(msg) == [ok |-> FALSE, kind |-> "err", err |-> msg, labels |-> <<>>, p |-> <<0, 1>>]

(***************************************************************************)
(* Tagger::set.  f names the native call that returns a non-zero code      *)
(* during this call ("none": every native call succeeds).  The outcome is  *)
(* the result and the instance the native tagger holds afterwards.         *)
(***************************************************************************)
\* variant: an attribute absent from the dictionary aborts the call
RECURSIVE set_item_strict(_, _, _, _)
set_item_strict(attrs, item, k, inst_item) ==
    IF k > Len(item) THEN [ok |-> TRUE, item |-> inst_item]
    ELSE LET c == get_attr(item[k]) IN
         IF ~c.ok THEN [ok |-> FALSE, item |-> inst_item]
         ELSE LET aid == str_to_id(attrs, c.cstr) IN
              IF 0 <= aid
              THEN set_item_strict(attrs, item, k + 1,
                       crfsuite_item_append_attribute(inst_item,
                           crfsuite_attribute_set(aid, get_value(item[k]))))
              ELSE [ok |-> FALSE, item |-> inst_item]

\* the inner loop over the attributes of one input item, from attribute k on
RECURSIVE set_item(_, _, _, _)
set_item(attrs, item, k, inst_item) ==
    IF k > Len(item) THEN [ok |-> TRUE, item |-> inst_item]
    ELSE LET c == get_attr(item[k]) IN
         IF ~c.ok THEN [ok |-> FALSE, item |-> inst_item]
         ELSE LET aid == str_to_id(attrs, c.cstr) IN
              IF 0 <= aid
              THEN set_item(attrs, item, k + 1,
                       crfsuite_item_append_attribute(inst_item,
                           crfsuite_attribute_set(aid, get_value(item[k]))))
              ELSE set_item(attrs, item, k + 1, inst_item)

\* the outer loop over the input items, from item i on
RECURSIVE set_items(_, _, _, _)
set_items(attrs, input, i, inst_items) ==
    IF i > Len(input) THEN [ok |-> TRUE, items |-> inst_items]
    ELSE LET it == set_item(attrs, input[i], 1, <<>>) IN
         IF ~it.ok THEN [ok |-> FALSE, items |-> inst_items]
         ELSE set_items(attrs, input, i + 1, Append(inst_items, it.item))

\* the attribute dictionary after the lookups of the inner loop, from
\* attribute k on
RECURSIVE set_item_dict(_, _, _)
set_item_dict(attrs, item, k) ==
    IF k > Len(item) THEN [ok |-> TRUE, dict |-> attrs]
    ELSE LET c == get_attr(item[k]) IN
         IF ~c.ok THEN [ok |-> FALSE, dict |-> attrs]
         ELSE set_item_dict(Dict_after_to_id(attrs, c.cstr), item, k + 1)

\* the attribute dictionary after the lookups of the outer loop, from item i on
RECURSIVE set_items_dict(_, _, _)
set_items_dict(attrs, input, i) ==
    IF i > Len(input) THEN attrs
    ELSE LET it == set_item_dict(attrs, input[i], 1) IN
         IF ~it.ok THEN it.dict
         ELSE set_items_dict(it.dict, input, i + 1)

\* the model after a set call
Model_after_set(m, input, f) ==
    IF f = "get_attrs" THEN m
    ELSE [m EXCEPT !.attrs = set_items_dict(m.attrs, input, 1)]

\* variant: the new items are added to the sequence the tagger already holds
Tagger_set_appends(m, cur, input, f) ==
    IF f = "get_attrs"
    THEN [res |-> Err("error while getting tagger"), inst |-> cur]
    ELSE LET built == set_items(m.attrs, input, 1, <<>>) IN
         IF ~built.ok
         THEN [res |-> Err("nul byte in attribute name"), inst |-> cur]
         ELSE IF f = "tagger_set"
         THEN [res |-> Err("error while getting tagger"), inst |-> cur]
         ELSE [res |-> Ok_unit, inst |-> cur \o built.items]

Tagger_set(m, cur, input, f) ==
    IF f = "get_attrs"
    THEN [res |-> Err("error while getting tagger"), inst |-> cur]
    ELSE LET built == set_items(m.attrs, input, 1, <<>>) IN
         IF ~built.ok
         THEN [res |-> Err("nul byte in attribute name"), inst |-> cur]
         ELSE IF f = "tagger_set"
         THEN [res |-> Err("error while getting tagger"), inst |-> cur]
         ELSE [res |-> Ok_unit, inst |-> built.items]

(***************************************************************************)
(* Tagger::viterbi                                                         *)
(***************************************************************************)
\* the loop over the path, from position i on
RECURSIVE viterbi_labels(_, _, _, _, _)
viterbi_labels(labels, path, i, yseq, f) ==
    IF i > Len(path) THEN Ok_labels(yseq)
    ELSE LET s == id_to_string(labels, path[i]) IN
         IF s.r # 0 \/ f = "id_to_string"
         THEN Err("failed to convert a label identifier to string")
         ELSE IF ~CStr_to_str(s.str)
         THEN Err("invalid utf-8 in label")
         ELSE viterbi_labels(labels, path, i + 1, Append(yseq, s.str), f)

\* variant: an empty sequence is refused instead of answered with no labels
Tagger_viterbi_refuses_empty(m, cur, f) ==
    LET t == Native_length(cur) IN
    IF t = 0 THEN Err("no sequence set")
    ELSE IF f = "get_labels"
    THEN Err("failed to obtain the dictionary interface for labels")
    ELSE IF f = "tagger_viterbi"
    THEN Err("failed to find the viterbi path")
    ELSE viterbi_labels(m.labels, Native_viterbi(m, cur).path, 1, <<>>, f)

\* variant: the path filled in by the native tagger is not used, the labels
\* are those of the zero-initialised vector
Tagger_viterbi_zero_path(m, cur, f) ==
    LET t == Native_length(cur) IN
    IF t = 0 THEN Ok_labels(<<>>)
    ELSE IF f = "get_labels"
    THEN Err("failed to obtain the dictionary interface for labels")
    ELSE IF f = "tagger_viterbi"
    THEN Err("failed to find the viterbi path")
    ELSE viterbi_labels(m.labels, [i \in 1..t |-> 0], 1, <<>>, f)

\* variant: the last position of the path is not converted
Tagger_viterbi_short(m, cur, f) ==
    LET t == Native_length(cur) IN
    IF t = 0 THEN Ok_labels(<<>>)
    ELSE IF f = "get_labels"
    THEN Err("failed to obtain the dictionary interface for labels")
    ELSE IF f = "tagger_viterbi"
    THEN Err("failed to find the viterbi path")
    ELSE viterbi_labels(m.labels, SubSeq(Native_viterbi(m, cur).path, 1, t - 1),
                        1, <<>>, f)

Tagger_viterbi(m, cur, f) ==
    LET t == Native_length(cur) IN
    IF t = 0 THEN Ok_labels(<<>>)
    ELSE IF f = "get_labels"
    THEN Err("failed to obtain the dictionary interface for labels")
    ELSE IF f = "tagger_viterbi"
    THEN Err("failed to find the viterbi path")
    ELSE viterbi_labels(m.labels, Native_viterbi(m, cur).path, 1, <<>>, f)

(***************************************************************************)
(* Tagger::tag                                                             *)
(***************************************************************************)
\* variant: the labels are decoded from the sequence held before the set step
Tagger_tag_decodes_first(m, cur, input, f) ==
    LET s == Tagger_set(m, cur, input, f) IN
    IF ~s.res.ok THEN s
    ELSE [res |-> Tagger_viterbi(m, cur, f), inst |-> Native_after_query(s.inst)]

Tagger_tag(m, cur, input, f) ==
    LET s == Tagger_set(m, cur, input, f) IN
    IF ~s.res.ok THEN s
    ELSE [res |-> Tagger_viterbi(m, s.inst, f), inst |-> Native_after_query(s.inst)]

(***************************************************************************)
(* Tagger::probability                                                     *)
(***************************************************************************)
\* variant: the label id 0 is taken for the not-found outcome
RECURSIVE probability_path_rejects_zero(_, _, _, _)
probability_path_rejects_zero(labels, tags, i, path) ==
    IF i > Len(tags) THEN [ok |-> TRUE, err |-> "", path |-> path]
    ELSE LET c == CString_new(tags[i]) IN
         IF ~c.ok THEN [ok |-> FALSE, err |-> "nul byte in label", path |-> path]
         ELSE LET l == str_to_id(labels, c.cstr) IN
              IF l <= 0
              THEN [ok |-> FALSE, err |-> "Failed to convert into label identifier",
                    path |-> path]
              ELSE probability_path_rejects_zero(labels, tags, i + 1, Append(path, l))

\* the loop converting the candidate labels to ids, from position i on
RECURSIVE probability_path(_, _, _, _)
probability_path(labels, tags, i, path) ==
    IF i > Len(tags) THEN [ok |-> TRUE, err |-> "", path |-> path]
    ELSE LET c == CString_new(tags[i]) IN
         IF ~c.ok THEN [ok |-> FALSE, err |-> "nul byte in label", path |-> path]
         ELSE LET l == str_to_id(labels, c.cstr) IN
              IF l < 0
              THEN [ok |-> FALSE, err |-> "Failed to convert into label identifier",
                    path |-> path]
              ELSE probability_path(labels, tags, i + 1, Append(path, l))

\* the label dictionary after the lookups of the loop, from position i on
RECURSIVE probability_dict(_, _, _)
probability_dict(labels, tags, i) ==
    IF i > Len(tags) THEN labels
    ELSE LET c == CString_new(tags[i]) IN
         IF ~c.ok THEN labels
         ELSE IF str_to_id(labels, c.cstr) < 0
         THEN Dict_after_to_id(labels, c.cstr)
         ELSE probability_dict(Dict_after_to_id(labels, c.cstr), tags, i + 1)

\* the model after a probability call
Model_after_probability(m, cur, tags, f) ==
    IF Native_length(cur) = 0 \/ Native_length(cur) # Len(tags) \/ f = "get_labels"
    THEN m
    ELSE [m EXCEPT !.labels = probability_dict(m.labels, tags, 1)]

Tagger_probability(m, cur, tags, f) ==
    LET t == Native_length(cur) IN
    IF t = 0 THEN Ok_f64(0, 1)
    ELSE IF t # Len(tags)
    THEN Err("The number of items and labels differ")
    ELSE IF f = "get_labels"
    THEN Err("Failed to obtain the dictionary interface for labels")
    ELSE LET conv == probability_path(m.labels, tags, 1, <<>>) IN
         IF ~conv.ok THEN Err(conv.err)
         ELSE IF f = "tagger_score"
         THEN Err("Failed to score the label sequence")
         ELSE IF f = "tagger_lognorm"
         THEN Err("Failed to compute the partition factor")
         ELSE Ok_f64(Pot(Native_score(m, cur, conv.path)), Native_lognorm(m, cur))

(***************************************************************************)
(* Tagger::labels                                                          *)
(***************************************************************************)
\* the loop over the label ids i..num-1
RECURSIVE labels_from(_, _, _, _)
labels_from(labels, i, lseq, f) ==
    IF i >= num(labels) THEN Ok_labels(lseq)
    ELSE LET s == id_to_string(labels, i) IN
         IF s.r # 0 \/ f = "id_to_string"
         THEN Err("failed to convert a label identifier to string")
         ELSE IF ~CStr_to_str(s.str)
         THEN Err("invalid utf-8 in label")
         ELSE labels_from(labels, i + 1, Append(lseq, s.str), f)

\* variant: the loop starts at label id 1
Tagger_labels_from_one(m, f) ==
    IF f = "get_labels"
    THEN Err("failed to obtain the dictionary interface for labels")
    ELSE labels_from(m.labels, 1, <<>>, f)

Tagger_labels(m, f) ==
    IF f = "get_labels"
    THEN Err("failed to obtain the dictionary interface for labels")
    ELSE labels_from(m.labels, 0, <<>>, f)

(***************************************************************************)
(* Tagger::create_from_memory.  The outcome tells whether a Tagger is      *)
(* returned, and how many model handles the call obtained and released     *)
(* (Drop for ModelWrapper releases the handle of a wrapper that goes out   *)
(* of scope).                                                              *)
(***************************************************************************)
\* variant: the model handle is not released when no tagger can be obtained
Tagger_create_from_memory_leaks(d, f) ==
    IF crfsuite_create_instance_from_memory(d) # 0
    THEN [res |-> Err("error while creating instance"), obtained |-> 0, released |-> 0]
    ELSE IF f = "get_tagger"
    THEN [res |-> Err("error while getting tagger"), obtained |-> 1, released |-> 0]
    ELSE [res |-> Ok_unit, obtained |-> 1, released |-> 0]

Tagger_create_from_memory(d, f) ==
    IF crfsuite_create_instance_from_memory(d) # 0
    THEN [res |-> Err("error while creating instance"), obtained |-> 0, released |-> 0]
    ELSE IF f = "get_tagger"
    THEN [res |-> Err("error while getting tagger"), obtained |-> 1, released |-> 1]
    ELSE [res |-> Ok_unit, obtained |-> 1, released |-> 0]

(***************************************************************************)
(* Tagger::create_from_file, over a file system that maps a path to a      *)
(* regular file with its contents, to a directory, or to nothing.          *)
(***************************************************************************)
RegularFile(d) == [kind |-> "file", content |-> d]

Directory == [kind |-> "dir", content |-> ModelCorrupt]

NoFile == [kind |-> "none", content |-> ModelCorrupt]

Paths == {"ob.crfsuite", "badlabel.crfsuite", "ties.crfsuite", "chain.crfsuite",
          "corrupt.crfsuite", "models", "missing.crfsuite"}

FileAt(p) ==
    CASE p = "ob.crfsuite"       -> RegularFile(ModelOB)
      [] p = "badlabel.crfsuite" -> RegularFile(ModelBadLabel)
      [] p = "ties.crfsuite"     -> RegularFile(ModelTies)
      [] p = "chain.crfsuite"    -> RegularFile(ModelChain)
      [] p = "corrupt.crfsuite"  -> RegularFile(ModelCorrupt)
      [] p = "models"            -> Directory
      [] OTHER                   -> NoFile

\* the paths explored when native calls may fail
FaultPaths == {"ob.crfsuite", "corrupt.crfsuite", "missing.crfsuite"}

\* File::open: fails when nothing is at the path
File_open(p) == FileAt(p).kind # "none"

\* Read::read_to_end: every byte of a regular file; fails on a directory
read_to_end(p) ==
    IF FileAt(p).kind = "file"
    THEN [ok |-> TRUE, bytes |-> FileAt(p).content]
    ELSE [ok |-> FALSE, bytes |-> ModelCorrupt]

\* create_from_file that hands over the buffer without reading the file
Tagger_create_from_file_unread(p, f) ==
    IF ~File_open(p)
    THEN [res |-> Err("No such file or directory"), obtained |-> 0, released |-> 0,
          bytes |-> ModelCorrupt]
    ELSE Tagger_create_from_memory(ModelCorrupt, f) @@ [bytes |-> ModelCorrupt]

Tagger_create_from_file(p, f) ==
    IF ~File_open(p)
    THEN [res |-> Err("No such file or directory"), obtained |-> 0, released |-> 0,
          bytes |-> ModelCorrupt]
    ELSE LET r == read_to_end(p) IN
         IF ~r.ok
         THEN [res |-> Err("Is a directory"), obtained |-> 0, released |-> 0,
               bytes |-> ModelCorrupt]
         ELSE Tagger_create_from_memory(r.bytes, f) @@ [bytes |-> r.bytes]

(***************************************************************************)
(* The native resources a call takes and gives back, as the sequence of    *)
(* events in the order the code reaches them:                              *)
(*   "get_attrs", "get_labels"   a dictionary handle is obtained           *)
(*   "release"                   Drop for DictionaryWrapper releases it    *)
(*   "instance_init_n"           crfsuite_instance_init_n                  *)
(*   "instance_finish"           crfsuite_instance_finish                  *)
(*   "into_raw"                  a CString is handed out as a raw pointer  *)
(*   "to_id"                     the dictionary looks the C string up      *)
(*   "from_raw"                  CString::from_raw takes it back           *)
(*   "to_string"                 id_to_string hands out a label string     *)
(*   "free"                      DictionaryWrapper::free frees it          *)
(*   "create_instance", "get_tagger"   the model / tagger handle obtained  *)
(*   "release_model", "release_tagger", "drop_bytes"   Drop of the fields  *)
(***************************************************************************)
\* the inner loop of set, from attribute k on: a `?` on get_attr leaves
\* the function
RECURSIVE set_item_events(_, _)
set_item_events(item, k) ==
    IF k > Len(item) THEN [ok |-> TRUE, ev |-> <<>>]
    ELSE IF ~get_attr(item[k]).ok THEN [ok |-> FALSE, ev |-> <<>>]
    ELSE LET rest == set_item_events(item, k + 1) IN
         [ok |-> rest.ok, ev |-> <<"into_raw", "to_id", "from_raw">> \o rest.ev]

\* the outer loop of set, from item i on
RECURSIVE set_items_events(_, _)
set_items_events(input, i) ==
    IF i > Len(input) THEN [ok |-> TRUE, ev |-> <<>>]
    ELSE LET it == set_item_events(input[i], 1) IN
         IF ~it.ok THEN it
         ELSE LET rest == set_items_events(input, i + 1) IN
              [ok |-> rest.ok, ev |-> it.ev \o rest.ev]

\* Tagger::set: the attribute dictionary, the native instance and the
\* C strings of the attribute names
Tagger_set_events(input, f) ==
    IF f = "get_attrs" THEN <<>>
    ELSE LET loop == set_items_events(input, 1) IN
         IF ~loop.ok
         THEN <<"get_attrs", "instance_init_n">> \o loop.ev \o <<"release">>
         ELSE <<"get_attrs", "instance_init_n">> \o loop.ev
                  \o <<"instance_finish", "release">>

\* the loop of viterbi over the decoded path, from position i on
RECURSIVE viterbi_labels_events(_, _, _, _)
viterbi_labels_events(labels, path, i, f) ==
    IF i > Len(path) THEN <<>>
    ELSE LET s == id_to_string(labels, path[i]) IN
         IF s.r # 0 \/ f = "id_to_string" THEN <<>>
         ELSE IF ~CStr_to_str(s.str) THEN <<"to_string">>
         ELSE <<"to_string", "free">>
                  \o viterbi_labels_events(labels, path, i + 1, f)

\* Tagger::viterbi: the label dictionary and the label strings
Tagger_viterbi_events(m, cur, f) ==
    IF Native_length(cur) = 0 THEN <<>>
    ELSE IF f = "get_labels" THEN <<>>
    ELSE IF f = "tagger_viterbi" THEN <<"get_labels", "release">>
    ELSE <<"get_labels">>
             \o viterbi_labels_events(m.labels, Native_viterbi(m, cur).path, 1, f)
             \o <<"release">>

\* Tagger::tag: set, then viterbi when set succeeded
Tagger_tag_events(m, cur, input, f) ==
    LET s == Tagger_set(m, cur, input, f) IN
    IF ~s.res.ok THEN Tagger_set_events(input, f)
    ELSE Tagger_set_events(input, f) \o Tagger_viterbi_events(m, s.inst, f)

\* the loop of probability over the candidate labels, from position i on
RECURSIVE probability_path_events(_, _, _)
probability_path_events(labels, tags, i) ==
    IF i > Len(tags) THEN <<>>
    ELSE LET c == CString_new(tags[i]) IN
         IF ~c.ok THEN <<>>
         ELSE IF str_to_id(labels, c.cstr) < 0 THEN <<"into_raw", "to_id">>
         ELSE <<"into_raw", "to_id">> \o probability_path_events(labels, tags, i + 1)

\* Tagger::probability: the label dictionary and the C strings of the
\* candidate labels
Tagger_probability_events(m, cur, tags, f) ==
    LET t == Native_length(cur) IN
    IF t = 0 THEN <<>>
    ELSE IF t # Len(tags) THEN <<>>
    ELSE IF f = "get_labels" THEN <<>>
    ELSE <<"get_labels">> \o probability_path_events(m.labels, tags, 1)
             \o <<"release">>

\* the loop of labels over the label ids, from id i on
RECURSIVE labels_from_events(_, _, _)
labels_from_events(labels, i, f) ==
    IF i >= num(labels) THEN <<>>
    ELSE LET s == id_to_string(labels, i) IN
         IF s.r # 0 \/ f = "id_to_string" THEN <<>>
         ELSE IF ~CStr_to_str(s.str) THEN <<"to_string">>
         ELSE <<"to_string", "free">> \o labels_from_events(labels, i + 1, f)

\* Tagger::labels: the label dictionary and the label strings
Tagger_labels_events(m, f) ==
    IF f = "get_labels" THEN <<>>
    ELSE <<"get_labels">> \o labels_from_events(m.labels, 0, f) \o <<"release">>

\* Tagger::create_from_memory: the model handle, the tagger handle and
\* the byte buffer the caller gave
Tagger_create_from_memory_events(d, f) ==
    IF crfsuite_create_instance_from_memory(d) # 0 THEN <<"drop_bytes">>
    ELSE IF f = "get_tagger"
    THEN <<"create_instance", "release_model", "drop_bytes">>
    ELSE <<"create_instance", "get_tagger">>

\* Tagger::create_from_file: nothing is obtained before the file is read
Tagger_create_from_file_events(p, f) ==
    IF ~File_open(p) THEN <<>>
    ELSE LET r == read_to_end(p) IN
         IF ~r.ok THEN <<"drop_bytes">>
         ELSE Tagger_create_from_memory_events(r.bytes, f)

\* the fields of struct Tagger, in the order of their declaration
Tagger_fields == <<"bytes", "model", "tagger">>

\* what dropping one field does: the Vec frees its buffer, Drop for
\* ModelWrapper and Drop for TaggerWrapper release their handle
drop_field(field) ==
    CASE field = "bytes" -> "drop_bytes"
      [] field = "model" -> "release_model"
      [] field = "tagger" -> "release_tagger"

\* a Tagger going out of scope: it has no Drop of its own, so its fields
\* are dropped one after the other in the order of their declaration
Tagger_drop_events == [i \in 1..Len(Tagger_fields) |-> drop_field(Tagger_fields[i])]

(***************************************************************************)
(* Inputs                                                                  *)
(***************************************************************************)
SeqsUpTo(S, n) == UNION {[1..k -> S] : k \in 0..n}

\* input items: Vec<A>
ItemPool ==
    { <<SimpleAttribute(NameZ, 1)>>,
      <<SimpleAttribute(NameA, 1), SimpleAttribute(NameZ, 1), SimpleAttribute(NameB, 2)>>,
      <<SimpleAttribute(NameA, 1), SimpleAttribute(NameNul, 1)>> }

Inputs == SeqsUpTo(ItemPool, MaxT)

\* candidate labels: Rust strings, always valid UTF-8
TagPool == {LabO, LabB, NameNul}

TagLists == SeqsUpTo(TagPool, MaxTags)

\* the inputs explored when native calls may fail
FaultItemPool ==
    { <<SimpleAttribute(NameA, 1), SimpleAttribute(NameZ, 1), SimpleAttribute(NameB, 2)>>,
      <<SimpleAttribute(NameA, 1), SimpleAttribute(NameNul, 1)>> }

FaultInputs == SeqsUpTo(FaultItemPool, MaxT)

FaultTagLists == SeqsUpTo({LabO, NameZ}, MaxTags)

(***************************************************************************)
(* State                                                                   *)
(***************************************************************************)
VARIABLES
    faulty,     \* whether native calls on a loaded model may return error codes
    live,       \* a Tagger exists
    bytes,      \* Tagger.bytes: the model the Tagger was created from
    inst,       \* the instance held by the native tagger (Tagger.tagger)
    was_set,    \* history: a set step has succeeded on this Tagger
    op,         \* the last method called
    input,      \* its input (set, tag)
    tags,       \* its candidate labels (probability)
    data,       \* the bytes handed to the last create_from_memory
    fault,      \* the native call that returned an error code during it
    res,        \* its result
    handles,    \* model handles obtained and not released
    obtained,   \* model handles obtained during the last call
    released,   \* model handles released during the last call
    path,       \* the path handed to create_from_file, "" after any other call
    clients,    \* the clients sharing the Tagger: position, input and results
    trace       \* the native resources the last call took and gave back

vars == <<faulty, live, bytes, inst, was_set, op, input, tags, data, fault, res,
          handles, obtained, released, path, clients, trace>>

Faults(S) == IF faulty THEN S \cup {"none"} ELSE {"none"}

InitWith(fy) ==
    /\ faulty = fy
    /\ live = FALSE
    /\ bytes = ModelCorrupt
    /\ inst = <<>>
    /\ was_set = FALSE
    /\ op = "new"
    /\ input = <<>>
    /\ tags = <<>>
    /\ data = ModelCorrupt
    /\ fault = "none"
    /\ res = Ok_unit
    /\ handles = 0
    /\ obtained = 0
    /\ released = 0
    /\ path = ""
    /\ clients = <<>>
    /\ trace = <<>>

Init == InitWith(FALSE)

InitFault == InitWith(TRUE)

CreateFromMemory ==
    /\ ~live
    /\ \E d \in (IF faulty THEN FaultBlobs ELSE Blobs),
          f \in Faults({"get_tagger"}) :
          LET o == Tagger_create_from_memory(d, f) IN
          /\ live' = o.res.ok
          /\ bytes' = IF o.res.ok THEN d ELSE bytes
          /\ data' = d
          /\ fault' = f
          /\ res' = o.res
          /\ input' = <<>>
          /\ tags' = <<>>
          /\ handles' = handles + o.obtained - o.released
          /\ obtained' = o.obtained
          /\ released' = o.released
          /\ trace' = Tagger_create_from_memory_events(d, f)
    /\ op' = "create_from_memory"
    /\ inst' = <<>>
    /\ was_set' = FALSE
    /\ path' = ""
    /\ UNCHANGED <<faulty, clients>>

CreateFromFile ==
    /\ ~live
    /\ \E p \in (IF faulty THEN FaultPaths ELSE Paths),
          f \in Faults({"get_tagger"}) :
          LET o == Tagger_create_from_file(p, f) IN
          /\ live' = o.res.ok
          /\ bytes' = IF o.res.ok THEN o.bytes ELSE bytes
          /\ data' = o.bytes
          /\ fault' = f
          /\ res' = o.res
          /\ path' = p
          /\ handles' = handles + o.obtained - o.released
          /\ obtained' = o.obtained
          /\ released' = o.released
          /\ trace' = Tagger_create_from_file_events(p, f)
    /\ op' = "create_from_file"
    /\ input' = <<>>
    /\ tags' = <<>>
    /\ inst' = <<>>
    /\ was_set' = FALSE
    /\ UNCHANGED <<faulty, clients>>

Labels ==
    /\ live
    /\ \E f \in Faults({"get_labels", "id_to_string"}) :
          /\ res' = Tagger_labels(bytes, f)
          /\ fault' = f
          /\ trace' = Tagger_labels_events(bytes, f)
    /\ op' = "labels"
    /\ input' = <<>>
    /\ tags' = <<>>
    /\ path' = ""
    /\ UNCHANGED <<faulty, live, bytes, inst, was_set, data, handles, obtained, released,
                   clients>>

Set ==
    /\ live
    /\ \E x \in (IF faulty THEN FaultInputs ELSE Inputs),
          f \in Faults({"get_attrs", "tagger_set"}) :
          LET o == Tagger_set(bytes, inst, x, f) IN
          /\ res' = o.res
          /\ inst' = o.inst
          /\ bytes' = Model_after_set(bytes, x, f)
          /\ was_set' = (was_set \/ o.res.ok)
          /\ input' = x
          /\ fault' = f
          /\ trace' = Tagger_set_events(x, f)
    /\ op' = "set"
    /\ tags' = <<>>
    /\ path' = ""
    /\ UNCHANGED <<faulty, live, data, handles, obtained, released, clients>>

Viterbi ==
    /\ live
    /\ \E f \in Faults({"get_labels", "tagger_viterbi", "id_to_string"}) :
          /\ res' = Tagger_viterbi(bytes, inst, f)
          /\ fault' = f
          /\ trace' = Tagger_viterbi_events(bytes, inst, f)
    /\ inst' = Native_after_query(inst)
    /\ op' = "viterbi"
    /\ input' = <<>>
    /\ tags' = <<>>
    /\ path' = ""
    /\ UNCHANGED <<faulty, live, bytes, was_set, data, handles, obtained, released,
                   clients>>

Tag ==
    /\ live
    /\ \E x \in (IF faulty THEN FaultInputs ELSE Inputs),
          f \in Faults({"get_attrs", "tagger_set", "get_labels",
                        "tagger_viterbi", "id_to_string"}) :
          LET o == Tagger_tag(bytes, inst, x, f)
              s == Tagger_set(bytes, inst, x, f) IN
          /\ res' = o.res
          /\ inst' = o.inst
          /\ bytes' = Model_after_set(bytes, x, f)
          /\ was_set' = (was_set \/ s.res.ok)
          /\ input' = x
          /\ fault' = f
          /\ trace' = Tagger_tag_events(bytes, inst, x, f)
    /\ op' = "tag"
    /\ tags' = <<>>
    /\ path' = ""
    /\ UNCHANGED <<faulty, live, data, handles, obtained, released, clients>>

Probability ==
    /\ live
    /\ \E y \in (IF faulty THEN FaultTagLists ELSE TagLists),
          f \in Faults({"get_labels", "tagger_score", "tagger_lognorm"}) :
          /\ res' = Tagger_probability(bytes, inst, y, f)
          /\ bytes' = Model_after_probability(bytes, inst, y, f)
          /\ tags' = y
          /\ fault' = f
          /\ trace' = Tagger_probability_events(bytes, inst, y, f)
    /\ inst' = Native_after_query(inst)
    /\ op' = "probability"
    /\ input' = <<>>
    /\ path' = ""
    /\ UNCHANGED <<faulty, live, was_set, data, handles, obtained, released,
                   clients>>

\* the Tagger goes out of scope
Drop ==
    /\ live
    /\ live' = FALSE
    /\ trace' = Tagger_drop_events
    /\ handles' = handles - 1
    /\ obtained' = 0
    /\ released' = 1
    /\ op' = "drop"
    /\ res' = Ok_unit
    /\ inst' = <<>>
    /\ was_set' = FALSE
    /\ input' = <<>>
    /\ tags' = <<>>
    /\ fault' = "none"
    /\ path' = ""
    /\ UNCHANGED <<faulty, bytes, data, clients>>

Next ==
    \/ CreateFromMemory
    \/ CreateFromFile
    \/ Labels
    \/ Set
    \/ Viterbi
    \/ Tag
    \/ Probability
    \/ Drop

Spec == Init /\ [][Next]_vars

(***************************************************************************)
(* Decoding alone: a Tagger freshly created from one of a larger family of *)
(* models tags one input.                                                  *)
(***************************************************************************)
WeightVals == {0, 1}

TransRows == {<<0, 0, 0>>, <<0, 1, 0>>, <<2, 0, 1>>}

StateRowsB == {<<0, 0, 1>>, <<1, 0, 0>>, <<1, 1, 0>>}

DecodeBlobs ==
    { Blob(FALSE, <<LabO, LabB, LabI>>, <<NameA, NameB>>, <<sa, sb>>, <<r1, r2, r3>>) :
        sa \in [1..3 -> WeightVals], sb \in StateRowsB,
        r1 \in TransRows, r2 \in TransRows, r3 \in TransRows }

DecodeItemPool ==
    { <<SimpleAttribute(NameZ, 1)>>,
      <<SimpleAttribute(NameA, 1)>>,
      <<SimpleAttribute(NameB, 2)>>,
      <<SimpleAttribute(NameA, 1), SimpleAttribute(NameZ, 1), SimpleAttribute(NameB, 2)>> }

DecodeInputs == SeqsUpTo(DecodeItemPool, MaxT)

InitDecode ==
    /\ faulty = FALSE
    /\ live = TRUE
    /\ bytes \in DecodeBlobs
    /\ data = bytes
    /\ inst = <<>>
    /\ was_set = FALSE
    /\ op = "create_from_memory"
    /\ input = <<>>
    /\ tags = <<>>
    /\ fault = "none"
    /\ res = Ok_unit
    /\ handles = 1
    /\ obtained = 1
    /\ released = 0
    /\ path = ""
    /\ clients = <<>>
    /\ trace = Tagger_create_from_memory_events(bytes, "none")

\* the first tag call on the fresh Tagger
Decode ==
    /\ live
    /\ ~was_set
    /\ \E x \in DecodeInputs :
          LET o == Tagger_tag(bytes, inst, x, "none") IN
          /\ res' = o.res
          /\ inst' = o.inst
          /\ bytes' = Model_after_set(bytes, x, "none")
          /\ input' = x
          /\ trace' = Tagger_tag_events(bytes, inst, x, "none")
    /\ was_set' = TRUE
    /\ fault' = "none"
    /\ op' = "tag"
    /\ tags' = <<>>
    /\ path' = ""
    /\ UNCHANGED <<faulty, live, data, handles, obtained, released, clients>>

SpecDecode == InitDecode /\ [][Decode]_vars

SpecFault == InitFault /\ [][Next]_vars

(***************************************************************************)
(* Tagging inputs whose attributes are (String, String) pairs              *)
(***************************************************************************)
PairItemPool ==
    { <<Pair(<<>>, <<98, 58, 50>>), Pair(<<97>>, <<49>>)>>,      \* ("", "b:2"), ("a", "1")
      <<Pair(<<98>>, <<50>>), Pair(<<97, 58, 49>>, <<>>)>>,      \* ("b", "2"), ("a:1", "")
      <<Pair(<<97>>, <<49>>), Pair(<<98>>, <<0>>)>> }            \* ("a", "1"), ("b", "\0")

PairInputs == SeqsUpTo(PairItemPool, MaxT)

PairBlobs == {ModelOB, ModelBadLabel, ModelTies, ModelChain}

InitPairs ==
    /\ faulty = FALSE
    /\ live = TRUE
    /\ bytes \in PairBlobs
    /\ data = bytes
    /\ inst = <<>>
    /\ was_set = FALSE
    /\ op = "create_from_memory"
    /\ input = <<>>
    /\ tags = <<>>
    /\ fault = "none"
    /\ res = Ok_unit
    /\ handles = 1
    /\ obtained = 1
    /\ released = 0
    /\ path = ""
    /\ clients = <<>>
    /\ trace = Tagger_create_from_memory_events(bytes, "none")

TagPairs ==
    /\ live
    /\ \E x \in PairInputs :
          LET o == Tagger_tag(bytes, inst, x, "none")
              s == Tagger_set(bytes, inst, x, "none") IN
          /\ res' = o.res
          /\ inst' = o.inst
          /\ bytes' = Model_after_set(bytes, x, "none")
          /\ was_set' = (was_set \/ s.res.ok)
          /\ input' = x
          /\ trace' = Tagger_tag_events(bytes, inst, x, "none")
    /\ fault' = "none"
    /\ op' = "tag"
    /\ tags' = <<>>
    /\ path' = ""
    /\ UNCHANGED <<faulty, live, data, handles, obtained, released, clients>>

SpecPairs == InitPairs /\ [][TagPairs]_vars

(***************************************************************************)
(* Two clients sharing one Tagger.  Every method takes &self and Tagger is *)
(* Send but not Sync, so the calls of the clients are serialised and       *)
(* interleave call by call.  Each client sets its input, decodes it and    *)
(* asks for the probability of the labels it was given.                    *)
(***************************************************************************)
Clients == {1, 2}

ClientItemPool ==
    { <<SimpleAttribute(NameA, 1)>>,
      <<SimpleAttribute(NameB, 2)>> }

ClientInputs == SeqsUpTo(ClientItemPool, MaxT)

ClientBlobs == {ModelOB, ModelChain}

ClientStart(x) == [pc |-> "start", x |-> x, labels |-> Ok_unit, p |-> Ok_unit]

InitClients ==
    /\ faulty = FALSE
    /\ live = TRUE
    /\ bytes \in ClientBlobs
    /\ data = bytes
    /\ inst = <<>>
    /\ was_set = FALSE
    /\ op = "create_from_memory"
    /\ input = <<>>
    /\ tags = <<>>
    /\ fault = "none"
    /\ res = Ok_unit
    /\ handles = 1
    /\ obtained = 1
    /\ released = 0
    /\ path = ""
    /\ clients \in [Clients -> {ClientStart(x) : x \in ClientInputs}]
    /\ trace = Tagger_create_from_memory_events(bytes, "none")

\* client c calls set(x)
ClientSet(c) ==
    /\ live
    /\ clients[c].pc = "start"
    /\ LET o == Tagger_set(bytes, inst, clients[c].x, "none") IN
       /\ res' = o.res
       /\ inst' = o.inst
       /\ was_set' = (was_set \/ o.res.ok)
       /\ clients' = [clients EXCEPT ![c].pc = IF o.res.ok THEN "set" ELSE "done",
                                     ![c].labels = o.res]
    /\ bytes' = Model_after_set(bytes, clients[c].x, "none")
    /\ input' = clients[c].x
    /\ trace' = Tagger_set_events(clients[c].x, "none")
    /\ op' = "set"
    /\ tags' = <<>>
    /\ fault' = "none"
    /\ path' = ""
    /\ UNCHANGED <<faulty, live, data, handles, obtained, released>>

\* client c calls viterbi()
ClientViterbi(c) ==
    /\ live
    /\ clients[c].pc = "set"
    /\ LET r == Tagger_viterbi(bytes, inst, "none") IN
       /\ res' = r
       /\ clients' = [clients EXCEPT ![c].pc = IF r.ok THEN "decoded" ELSE "done",
                                     ![c].labels = r]
    /\ inst' = Native_after_query(inst)
    /\ trace' = Tagger_viterbi_events(bytes, inst, "none")
    /\ op' = "viterbi"
    /\ input' = <<>>
    /\ tags' = <<>>
    /\ fault' = "none"
    /\ path' = ""
    /\ UNCHANGED <<faulty, live, bytes, was_set, data, handles, obtained, released>>

\* client c calls probability(labels) with the labels viterbi() gave it
ClientProbability(c) ==
    /\ live
    /\ clients[c].pc = "decoded"
    /\ LET r == Tagger_probability(bytes, inst, clients[c].labels.labels, "none") IN
       /\ res' = r
       /\ clients' = [clients EXCEPT ![c].pc = "done", ![c].p = r]
    /\ bytes' = Model_after_probability(bytes, inst, clients[c].labels.labels, "none")
    /\ tags' = clients[c].labels.labels
    /\ inst' = Native_after_query(inst)
    /\ trace' = Tagger_probability_events(bytes, inst, clients[c].labels.labels,
                                           "none")
    /\ op' = "probability"
    /\ input' = <<>>
    /\ fault' = "none"
    /\ path' = ""
    /\ UNCHANGED <<faulty, live, was_set, data, handles, obtained, released>>

NextClients ==
    \E c \in Clients :
        \/ ClientSet(c)
        \/ ClientViterbi(c)
        \/ ClientProbability(c)

SpecClients == InitClients /\ [][NextClients]_vars

(***************************************************************************)
(* Properties                                                              *)
(***************************************************************************)
NoLabels == Ok_labels(<<>>)

\* C1: tagging an empty sequence (tag with zero items, or set of a
\* zero-length input followed by viterbi) returns Ok with an empty label
\* list, never an error.
C1_EmptySequenceTagsToNoLabels ==
    /\ (live /\ op = "tag" /\ Len(input) = 0) => res = NoLabels
    /\ (live /\ op = "viterbi" /\ Len(inst) = 0) => res = NoLabels

C1_Witness ==
    /\ live
    /\ op = "tag"
    /\ input = <<>>
    /\ bytes = ModelBadLabel
    /\ res.ok

\* C2: with a zero-length sequence set, probability of the empty candidate
\* list returns Ok(1.0).
C2_EmptyProbabilityIsOne ==
    (live /\ was_set /\ op = "probability" /\ Len(inst) = 0 /\ tags = <<>>)
        => (res.ok /\ res.kind = "f64" /\ res.p[1] = res.p[2])

\* C3: for every set sequence of length T >= 0 and every candidate list
\* whose length differs from T, probability returns an error.
C3_LengthMismatchIsError ==
    (live /\ was_set /\ op = "probability" /\ Len(tags) # Len(inst)) => ~res.ok

\* a candidate label that is not a label of the model
UnknownLabel(m, y) == \A i \in 1..Len(m.labels) : m.labels[i] # y

\* C4: probability returns an error whenever some candidate label is not in
\* the model's label dictionary.
C4_UnknownLabelIsError ==
    (live /\ op = "probability"
          /\ \E i \in 1..Len(tags) : UnknownLabel(bytes, tags[i]))
        => ~res.ok

\* the attributes of an input item that the attribute dictionary knows
KnownAttribute(m, a) == \E i \in 1..Len(m.attrs) : m.attrs[i] = a.attr

AttrId(m, a) == (CHOOSE i \in 1..Len(m.attrs) : m.attrs[i] = a.attr) - 1

KnownItem(m, item) ==
    LET known(a) == KnownAttribute(m, a)
        sel == SelectSeq(item, known)
    IN  [k \in 1..Len(sel) |-> [aid |-> AttrId(m, sel[k]), value |-> sel[k].value]]

KnownInstance(m, x) == [i \in 1..Len(x) |-> KnownItem(m, x[i])]

\* no attribute name of the input holds a NUL byte
Convertible(x) ==
    \A i \in 1..Len(x) : \A k \in 1..Len(x[i]) :
        \A j \in 1..Len(x[i][k].attr) : x[i][k].attr[j] # 0

\* C5: set and tag never fail because an attribute name is unknown: the
\* engine receives, per input position, exactly the known attributes of
\* that position in input order, and one item per position even when every
\* attribute of the position is unknown.
C5_UnknownAttributesAreSkipped ==
    (live /\ op \in {"set", "tag"} /\ Convertible(input)) =>
        /\ Len(inst) = Len(input)
        /\ inst = KnownInstance(bytes, input)
        /\ op = "set" => res = Ok_unit
        /\ op = "tag" =>
              res = Tagger_viterbi(bytes, KnownInstance(bytes, input), "none")

C5_Witness ==
    /\ live
    /\ op = "set"
    /\ res.ok
    /\ Len(input) = 2
    /\ Len(input[1]) = 1 /\ inst[1] = <<>>
    /\ Len(input[2]) = 3 /\ Len(inst[2]) = 2

\* what the caller can observe of the tagger: the answers of viterbi and of
\* probability for every candidate list
SameAnswers(m1, i1, m2, i2) ==
    /\ Tagger_viterbi(m1, i1, "none") = Tagger_viterbi(m2, i2, "none")
    /\ \A y \in TagLists :
          Tagger_probability(m1, i1, y, "none") = Tagger_probability(m2, i2, y, "none")

\* C6: a set, tag or probability call that returns an error leaves the
\* tagger's visible state as it was before the call: viterbi() and
\* probability(y) answer afterwards what they answered before.
C6_FailedCallChangesNothing ==
    [][(live /\ op' \in {"set", "tag", "probability"} /\ ~res'.ok)
          => SameAnswers(bytes', inst', bytes, inst)]_vars

\* C7: create_from_memory returns an error and no Tagger whenever the native
\* loader rejects the bytes or no tagger handle can be obtained; in the
\* second case the model handle obtained is released exactly once, in the
\* first case no handle is obtained or released.
C7_FailedCreateReleasesModel ==
    (op = "create_from_memory") =>
        /\ data.corrupt =>
              (~res.ok /\ ~live /\ obtained = 0 /\ released = 0)
        /\ (~data.corrupt /\ fault = "get_tagger") =>
              (~res.ok /\ ~live /\ obtained = 1 /\ released = 1)
        /\ ~res.ok => (~live /\ handles = 0)
        /\ res.ok => (live /\ handles = 1 /\ bytes = data)

C7_Witness ==
    /\ op = "create_from_memory"
    /\ ~data.corrupt
    /\ fault = "get_tagger"
    /\ ~res.ok
    /\ released = 1

\* every label name of the model is valid UTF-8
AllLabelsUtf8(m) == \A i \in 1..Len(m.labels) : CStr_to_str(m.labels[i])

\* the list holds one name per label id, in ascending id order
IsLabelList(m, ls) ==
    /\ Len(ls) = Dict_num(m.labels)
    /\ \A i \in 0..(Dict_num(m.labels) - 1) :
          ls[i + 1] = Dict_to_string(m.labels, i).str

\* C8 (as stated): labels() on a loaded model returns exactly count() names,
\* entry i being the name of label id i.
C8_LabelsListsEveryLabel ==
    (live /\ op = "labels") => (res.ok /\ IsLabelList(bytes, res.labels))

\* C8 (amended): labels() returns exactly count() names, entry i being the
\* name of label id i, when every label name is valid UTF-8, and returns an
\* error when some label name is not valid UTF-8.
C8_LabelsListsEveryUtf8Label ==
    (live /\ op = "labels") =>
        /\ res.ok => IsLabelList(bytes, res.labels)
        /\ res.ok <=> AllLabelsUtf8(bytes)

C8_Witness ==
    /\ live
    /\ op = "labels"
    /\ res.ok
    /\ Len(res.labels) = 3
    /\ res.labels[2] = NameEAcc

LabelNames(m) == {m.labels[i] : i \in 1..Len(m.labels)}

\* C9: a successful tag of an input of length T returns exactly T labels,
\* the label of position i at index i, each of them a label of the model
\* (and a member of labels() when labels() succeeds).
C9_TagReturnsOneLabelPerItem ==
    (live /\ op = "tag" /\ res.ok) =>
        /\ Len(res.labels) = Len(input)
        /\ \A i \in 1..Len(res.labels) :
              /\ res.labels[i] \in LabelNames(bytes)
              /\ Len(inst) = Len(input)
                    => res.labels[i]
                         = Dict_to_string(bytes.labels,
                                          Native_viterbi(bytes, inst).path[i]).str
              /\ Tagger_labels(bytes, "none").ok =>
                    \E k \in 1..Len(Tagger_labels(bytes, "none").labels) :
                        Tagger_labels(bytes, "none").labels[k] = res.labels[i]

C9_Witness ==
    /\ live
    /\ op = "tag"
    /\ res.ok
    /\ Len(input) = 2
    /\ res.labels[1] # res.labels[2]

\* every label path of length T, as label ids + 1
AllPaths(m, T) == [1..T -> LabelIds(m)]

\* the largest score of the label paths in the non-empty set Q
RECURSIVE MaxScoreOver(_, _, _)
MaxScoreOver(m, x, Q) ==
    LET q    == CHOOSE q \in Q : TRUE
        s    == PathScore(m, x, q)
        rest == Q \ {q}
    IN  IF rest = {} THEN s
        ELSE LET r == MaxScoreOver(m, x, rest) IN IF s >= r THEN s ELSE r

\* the largest score of a label path over the instance, by enumeration
BestScore(m, x) == MaxScoreOver(m, x, AllPaths(m, Len(x)))

\* the label path named by a list of label names
LabelPath(m, ls) == [t \in 1..Len(ls) |-> Dict_to_id(m.labels, ls[t]) + 1]

\* C10: the label sequence returned by Viterbi decoding has a total score
\* (state plus transition scores along the path) equal to the maximum score
\* over all L^T label sequences of the set instance.
C10_ViterbiPathIsOptimal ==
    (live /\ op = "tag" /\ res.ok /\ Len(inst) > 0) =>
        PathScore(bytes, inst, LabelPath(bytes, res.labels)) = BestScore(bytes, inst)

\* a decoded path on which a transition outweighs the best state score of a
\* position
C10_Witness ==
    /\ live
    /\ op = "tag"
    /\ res.ok
    /\ Len(inst) = 2
    /\ res.labels[1] # res.labels[2]
    /\ \E t \in 1..2 : \E y \in LabelIds(bytes) :
          StateScore(bytes, inst[t], y)
              > StateScore(bytes, inst[t], LabelPath(bytes, res.labels)[t])

\* q comes before p: at the last position where the two paths differ, q has
\* the lower label id
TieBefore(q, p) ==
    \E t \in 1..Len(p) :
        /\ q[t] < p[t]
        /\ \A u \in (t + 1)..Len(p) : q[u] = p[u]

\* C11: ties between equally scored candidates are broken by the
\* first-encountered maximum, the lowest label id winning both at the final
\* argmax and at each predecessor choice: every label sequence that has,
\* reading from the last position backwards, a lower label id than the
\* decoded one at the first position where the two differ, scores strictly
\* less than the decoded one; so the scores determine the decoded sequence.
C11_ViterbiTiesGoToLowestLabelId ==
    (live /\ op = "tag" /\ res.ok /\ Len(inst) > 0) =>
        \A q \in AllPaths(bytes, Len(inst)) :
            TieBefore(q, LabelPath(bytes, res.labels)) =>
                PathScore(bytes, inst, q)
                    < PathScore(bytes, inst, LabelPath(bytes, res.labels))

\* a decoded sequence of two items that ties with another sequence differing
\* from it in the first label only, and one differing in the last label
C11_Witness ==
    /\ live
    /\ op = "tag"
    /\ res.ok
    /\ Len(inst) = 2
    /\ LET p == LabelPath(bytes, res.labels) IN
       /\ \E q \in AllPaths(bytes, 2) :
             /\ PathScore(bytes, inst, q) = BestScore(bytes, inst)
             /\ q[2] = p[2]
             /\ q[1] > p[1]
       /\ \E q \in AllPaths(bytes, 2) :
             /\ PathScore(bytes, inst, q) = BestScore(bytes, inst)
             /\ q[2] > p[2]

\* C13: create_from_file(p) behaves as create_from_memory applied to the
\* contents of the file at p: it returns what create_from_memory returns for
\* those bytes, and the Tagger it yields gives the same labels() and the same
\* tag result for every input as one created from those bytes; a Tagger keeps
\* the bytes it was created from for as long as it lives.
C13_CreateFromFileIsCreateFromMemory ==
    /\ (op = "create_from_file" /\ FileAt(path).kind = "file") =>
          LET d == FileAt(path).content
              m == Tagger_create_from_memory(d, fault) IN
          /\ res = m.res
          /\ live = m.res.ok
          /\ handles = m.obtained - m.released
          /\ live =>
                /\ Tagger_labels(bytes, "none") = Tagger_labels(d, "none")
                /\ \A x \in Inputs :
                      Tagger_tag(bytes, inst, x, "none").res
                          = Tagger_tag(d, <<>>, x, "none").res
    /\ live => bytes = data

\* a Tagger created from the file of a model that loads
C13_Witness ==
    /\ op = "create_from_file"
    /\ path = "chain.crfsuite"
    /\ live
    /\ res.ok
    /\ Tagger_labels(bytes, "none").ok

\* the partition function by enumeration: the sum of exp(score) over every
\* label path of the instance
RECURSIVE SumPotOver(_, _, _)
SumPotOver(m, x, Q) ==
    IF Q = {} THEN 0
    ELSE LET q == CHOOSE q \in Q : TRUE IN
         Pot(PathScore(m, x, q)) + SumPotOver(m, x, Q \ {q})

\* the candidate label lists of an instance: one label name per item
Candidates(m, x) == [1..Len(x) -> LabelNames(m)]

\* the sum of the numerators of the probabilities of a set of candidates
RECURSIVE SumProbability(_, _, _)
SumProbability(m, x, Y) ==
    IF Y = {} THEN 0
    ELSE LET y == CHOOSE y \in Y : TRUE IN
         Tagger_probability(m, x, y, "none").p[1] + SumProbability(m, x, Y \ {y})

\* C12: for the set instance, probability(y) returns
\* exp(score(y) - log Z), where Z is the sum of exp(score) over all L^T label
\* sequences, and the probabilities of all L^T candidate label sequences sum
\* to 1.
C12_ProbabilityIsNormalised ==
    (live /\ was_set /\ AllLabelsUtf8(bytes)) =>
        LET Z == SumPotOver(bytes, inst, AllPaths(bytes, Len(inst))) IN
        /\ (op = "probability" /\ fault = "none" /\ tags \in Candidates(bytes, inst)) =>
              /\ res.ok
              /\ res.p = <<Pot(PathScore(bytes, inst, LabelPath(bytes, tags))), Z>>
        /\ \A y \in Candidates(bytes, inst) :
              /\ Tagger_probability(bytes, inst, y, "none").ok
              /\ Tagger_probability(bytes, inst, y, "none").p[2] = Z
        /\ SumProbability(bytes, inst, Candidates(bytes, inst)) = Z

\* the input with each (key, value) pair replaced by the SimpleAttribute of
\* name key ":" value and weight 1.0
AsSimple(x) ==
    [i \in 1..Len(x) |->
        [k \in 1..Len(x[i]) |->
            SimpleAttribute(x[i][k].key \o <<58>> \o x[i][k].val, 1)]]

PairTyped(x) == \A i \in 1..Len(x) : \A k \in 1..Len(x[i]) : x[i][k].kind = "pair"

\* C14: a tag call over items whose attributes are (key, value) pairs returns
\* what the tag call returns over the same items with each pair replaced by
\* the SimpleAttribute of name key ":" value and weight 1.0, and leaves the
\* tagger with the same instance.
C14_PairIsSimpleAttributeWithColon ==
    (live /\ op = "tag" /\ PairTyped(input)) =>
        LET s == Tagger_tag(bytes, <<>>, AsSimple(input), "none") IN
        /\ res = s.res
        /\ res.ok => inst = s.inst

\* a pair whose formatted name the model knows next to one it does not know,
\* tagged with two different labels
C14_Witness ==
    /\ live
    /\ op = "tag"
    /\ res.ok
    /\ Len(input) = 2
    /\ PairTyped(input)
    /\ Len(input[1]) = 2
    /\ Len(inst[1]) = 1
    /\ res.labels[1] # res.labels[2]

\* what a client with input x obtains when it runs alone on the model m
Alone(m, x) ==
    LET s == Tagger_set(m, <<>>, x, "none")
        v == Tagger_viterbi(m, s.inst, "none")
    IN  IF ~s.res.ok THEN [labels |-> s.res, p |-> Ok_unit]
        ELSE IF ~v.ok THEN [labels |-> v, p |-> Ok_unit]
        ELSE [labels |-> v, p |-> Tagger_probability(m, s.inst, v.labels, "none")]

\* C15: under every interleaving of the set, viterbi and probability calls of
\* two clients on one loaded model, each client obtains the results it would
\* obtain running alone.
C15_ClientsDoNotInterfere ==
    \A c \in DOMAIN clients :
        clients[c].pc = "done" =>
            /\ clients[c].labels = Alone(bytes, clients[c].x).labels
            /\ clients[c].p = Alone(bytes, clients[c].x).p

LookedUpNames == {NameA, NameB, NameZ, LabO, LabB, LabI, NameEAcc}

\* C17: the loaded model is immutable: after any sequence of set, tag,
\* viterbi, probability and labels calls, labels() returns the list it
\* returned right after loading and every name maps to the id, or to the
\* not-found outcome, it mapped to then, in both dictionaries.
C17_LoadedModelIsImmutable ==
    live =>
        /\ Tagger_labels(bytes, "none") = Tagger_labels(data, "none")
        /\ \A n \in LookedUpNames :
              /\ str_to_id(bytes.attrs, n) = str_to_id(data.attrs, n)
              /\ str_to_id(bytes.labels, n) = str_to_id(data.labels, n)
        /\ num(bytes.attrs) = num(data.attrs)
        /\ num(bytes.labels) = num(data.labels)

\* a probability call that looked up a name that is no label, on a tagger
\* whose set sequence came from an input with an attribute the model does not
\* know
C17_Witness ==
    /\ live
    /\ op = "probability"
    /\ ~res.ok
    /\ Len(inst) = 1
    /\ inst[1] = <<>>
    /\ Len(tags) = 1
    /\ str_to_id(bytes.labels, tags[1]) < 0
    /\ str_to_id(bytes.attrs, NameZ) < 0

\* the positions of an input item whose attribute has the given name
Named(item, name) == {k \in 1..Len(item) : item[k].attr = name}

\* the positions of an instance item that hold the given attribute id
WithId(inst_item, aid) == {k \in 1..Len(inst_item) : inst_item[k].aid = aid}

\* C18: a lookup of an unknown name yields the not-found outcome, never a
\* default id, and the wrapper takes a name as known exactly when the id is
\* >= 0: the id 0 is used as found (the attribute of id 0 enters the
\* instance as often as it is given, the label of id 0 is scored), the
\* not-found outcome is never used as an id (nothing else enters the
\* instance, and an unknown candidate label is an error).
C18_NotFoundIsNeverAnId ==
    /\ (live /\ op = "set" /\ res.ok /\ fault = "none") =>
          \A i \in 1..Len(input) :
              /\ \A k \in 1..Len(inst[i]) :
                    inst[i][k].aid \in 0..(num(bytes.attrs) - 1)
              /\ \A a \in 0..(num(bytes.attrs) - 1) :
                    Cardinality(WithId(inst[i], a))
                        = Cardinality(Named(input[i], id_to_string(bytes.attrs, a).str))
    /\ (live /\ op = "probability" /\ fault = "none"
             /\ Len(inst) > 0 /\ Len(tags) = Len(inst)) =>
          /\ res.ok <=> \A i \in 1..Len(tags) : str_to_id(bytes.labels, tags[i]) >= 0
          /\ res.ok => res.p[1] = Pot(PathScore(bytes, inst, LabelPath(bytes, tags)))

\* a candidate list that names the label of id 0 and another label, scored
\* against a sequence whose first item holds the attribute of id 0
C18_Witness ==
    /\ live
    /\ op = "probability"
    /\ res.ok
    /\ Len(inst) = 2
    /\ str_to_id(bytes.labels, tags[1]) = 0
    /\ str_to_id(bytes.labels, tags[2]) > 0
    /\ WithId(inst[1], 0) # {}

\* C19: after set(x) succeeds, every following viterbi() returns the labels
\* tag(x) would return and every probability(y) is scored against x, until
\* the next successful set or tag; after several sets the queries refer to
\* the most recently set sequence only.  As steps: a set or tag that returns
\* Ok makes the queries answer for its input, and on a tagger with a set
\* sequence no other call changes what the queries answer.
C19_QueriesFollowLastSuccessfulSet ==
    [][live =>
          /\ (op' \in {"set", "tag"} /\ res'.ok) =>
                /\ Tagger_viterbi(bytes', inst', "none")
                      = Tagger_tag(bytes', <<>>, input', "none").res
                /\ SameAnswers(bytes', inst',
                               bytes', Tagger_set(bytes', <<>>, input', "none").inst)
          /\ (was_set /\ ~(op' \in {"set", "tag"} /\ res'.ok)) =>
                SameAnswers(bytes', inst', bytes, inst)]_vars

C21_QueriesOnlyRead ==
    /\ [][(live /\ op' \in {"viterbi", "probability", "labels"}) =>
              (inst' = inst /\ bytes' = bytes)]_vars
    /\ [](  /\ (live /\ op = "viterbi" /\ fault = "none") =>
                  res = Tagger_viterbi(bytes, inst, "none")
            /\ (live /\ op = "probability" /\ fault = "none") =>
                  res = Tagger_probability(bytes, inst, tags, "none"))

\* a probability call that failed on a tagger that holds a two-item sequence
\* with two labels to decode
C21_Witness ==
    /\ live
    /\ op = "probability"
    /\ ~res.ok
    /\ Len(inst) = 2
    /\ Tagger_viterbi(bytes, inst, "none").ok
    /\ Len(Tagger_viterbi(bytes, inst, "none").labels) = 2

(***************************************************************************)
(* Native resources                                                        *)
(***************************************************************************)
\* the positions of the trace at which event e happens
At(e) == {i \in 1..Len(trace) : trace[i] = e}

\* every e1 of the trace happens before every e2 of it
Before(e1, e2) == \A i \in At(e1), j \in At(e2) : i < j

\* C22: when a Tagger is dropped the tagger handle is released first, then
\* the model handle, and the byte buffer the model was created from is
\* freed only after both; in no call is the buffer freed while a model or
\* tagger handle is still to be released.
C22_BytesOutliveHandles ==
    /\ op = "drop" =>
           /\ Cardinality(At("release_tagger")) = 1
           /\ Cardinality(At("release_model")) = 1
           /\ Cardinality(At("drop_bytes")) = 1
           /\ Before("release_tagger", "release_model")
    /\ Before("release_model", "drop_bytes")
    /\ Before("release_tagger", "drop_bytes")

\* C23: every native instance that set initialises with
\* crfsuite_instance_init_n is finished with crfsuite_instance_finish
\* exactly once before set returns, whether set succeeds or fails (an
\* attribute name that cannot be converted to a C string, a failing
\* native tagger set).
C23_SetFinishesItsInstance ==
    op \in {"set", "tag"} =>
        /\ Cardinality(At("instance_finish")) = Cardinality(At("instance_init_n"))
        /\ Cardinality(At("instance_init_n")) <= 1
        /\ Before("instance_init_n", "instance_finish")

\* C24: when labels, viterbi, set or probability returns, with Ok or with
\* Err, every dictionary handle the call obtained has been released exactly
\* once, and every label string it obtained through id_to_string has been
\* freed exactly once, before the handle of its dictionary was released
\* (also when a label is not valid UTF-8 or an id cannot be converted).
C24_DictionariesAndLabelStringsAreReleased ==
    op \in {"labels", "viterbi", "set", "probability"} =>
        /\ Cardinality(At("release")) =
               Cardinality(At("get_attrs") \cup At("get_labels"))
        /\ Before("get_attrs", "release")
        /\ Before("get_labels", "release")
        /\ \A i \in At("to_string") : i + 1 \in At("free")
        /\ \A i \in At("free") : i - 1 \in At("to_string")
        /\ Before("free", "release")

\* C25: every C string the wrapper hands to a dictionary lookup as a raw
\* pointer (an attribute name in set, a candidate label in probability) is
\* taken back exactly once, after the lookup; none is still allocated when
\* the call returns.
C25_RawCStringsAreReclaimed ==
    op \in {"set", "tag", "probability"} =>
        /\ \A i \in At("into_raw") :
               i + 1 \in At("to_id") /\ i + 2 \in At("from_raw")
        /\ \A i \in At("from_raw") : i - 2 \in At("into_raw")

====
